---- MODULE Spec2Model ----
(***************************************************************************)
(* The follower-check server action of nihaltp/github_follower_check: the  *)
(* paginating getNonFollowers of src/app/actions.ts (lines 305-466) with   *)
(* its helpers fetchGitHubApi, fetchAllPages and getUserDetails, run       *)
(* against a remote API whose answer to each request is chosen freely.     *)
(*                                                                         *)
(* Logins are sequences of character codes (ASCII), so that toLowerCase is *)
(* a real conversion.  Messages are pairs <<text, argument>>, the argument *)
(* being the characters interpolated into the text (at % when the text     *)
(* goes on after them).                                                    *)
(*                                                                         *)
(* Two earlier revisions of getNonFollowers, which enrich the result with  *)
(* Promise.all (src/app/actions.ts lines 1-130 and src/unnamed/part_003),  *)
(* and the page's handleSubmit (src/unnamed/part_001) are modelled next to *)
(* it: SpecPromiseAll runs the former, SpecPage runs handleSubmit around   *)
(* the paginating call.                                                    *)
(* FairSpec is the paginating call with its fetches settling, for the      *)
(* termination of fetchAllPages; SpecTests is the configuration test       *)
(* harness of src/__tests__/config.                                        *)
(***************************************************************************)
EXTENDS Integers, Sequences, FiniteSets, TLC

VARIABLES
    username,            \* argument of getNonFollowers
    token,               \* argument of getNonFollowers ("" when not given)
    checkType,           \* argument of getNonFollowers
    followingHead,       \* remote: the logins that start the target's following list
    followersHead,       \* remote: the logins that start the target's followers list
    fill,                \* remote: number of further users, the same in both lists
    pc,                  \* position of the call
    page,                \* fetchAllPages: page
    allData,             \* fetchAllPages: allData
    followingData,       \* getNonFollowers: followingData
    followersData,       \* getNonFollowers: followersData
    nonFollowersLogins,  \* getNonFollowers: nonFollowersLogins
    idx,                 \* position of the for-of loop over nonFollowersLogins
    usersWithDetails,    \* getNonFollowers: usersWithDetails
    hasPartialDataError, \* getNonFollowers: hasPartialDataError
    result,              \* the envelope the call resolved to
    requests,            \* every fetch() issued so far, in order, with its outcome
    lastResponse,        \* what the latest fetch() resolved to, or rejected with
    \* the Promise.all revisions of getNonFollowers
    revision,            \* which getNonFollowers runs
    following,           \* getNonFollowers: following
    followers,           \* getNonFollowers: followers
    resultUsers,         \* getNonFollowers: resultUsers
    completed,           \* the map() callbacks that settled, in the order they did
    criticalRateLimitHit,    \* part_003: criticalRateLimitHit
    partialDataRateLimitHit, \* part_003: partialDataRateLimitHit
    writes,              \* the assignments the map() callbacks made after their await
    \* the page component
    uiPc,                \* position of handleSubmit
    results,             \* useState: results
    loading,             \* useState: loading
    error,               \* useState: error
    searchedUsername,    \* useState: searchedUsername
    showInlineTokenInput,    \* useState: showInlineTokenInput
    tempGithubToken,     \* useState: tempGithubToken
    \* the configuration tests
    fileIndex,           \* runAllTests: position of its for-of loop in tests
    allPassed,           \* runAllTests: allPassed
    exitCode,            \* the code runAllTests exits with
    childResults,        \* how the test files run so far ended, in order
    child,               \* the spawned test file: not running, loading, running, ended
    runnerTests,         \* TestRunner: this.tests, each test by whether its fn throws
    testIndex,           \* TestRunner.run: position of its for-of loop
    passed,              \* TestRunner: this.passed
    failed,              \* TestRunner: this.failed
    ran                  \* the tests whose fn was called, in order

vars == <<username, token, checkType, followingHead, followersHead, fill, pc,
          page, allData, followingData, followersData, nonFollowersLogins,
          idx, usersWithDetails, hasPartialDataError, result, requests,
          lastResponse, revision, following, followers, resultUsers, completed,
          criticalRateLimitHit, partialDataRateLimitHit, writes, uiPc, results,
          loading, error, searchedUsername, showInlineTokenInput, tempGithubToken,
          fileIndex, allPassed, exitCode, childResults, child, runnerTests, testIndex,
          passed, failed, ran>>

\* the locals of the paginating getNonFollowers and of its fetchAllPages
pagingVars == <<page, allData, followingData, followersData, nonFollowersLogins, idx,
                hasPartialDataError>>

\* the locals of the Promise.all revisions
promiseAllVars == <<revision, following, followers, resultUsers, completed,
                    criticalRateLimitHit, partialDataRateLimitHit, writes>>

\* the state of the configuration test harness
harnessVars == <<fileIndex, allPassed, exitCode, childResults, child, runnerTests,
                 testIndex, passed, failed, ran>>

\* the state of the page component
pageVars == <<uiPc, results, loading, error, searchedUsername, showInlineTokenInput,
              tempGithubToken>>

(***************************************************************************)
(* Bounds and program constants                                            *)
(***************************************************************************)
\* per_page of fetchGitHubApi, and the literal 100 of fetchAllPages
PerPage == 100

\* most hand-picked logins at the heads of the two remote lists together
MaxHeadTotal == 3

\* numbers of generated users that follow the head in both remote lists
Fills == {0, PerPage - 1, 2 * PerPage}

(***************************************************************************)
(* Strings                                                                 *)
(***************************************************************************)
\* String.prototype.toLowerCase on ASCII: 'A'..'Z' (65..90) to 'a'..'z'
toLowerCase(s) ==
    [i \in 1..Len(s) |-> IF s[i] \in 65..90 THEN s[i] + 32 ELSE s[i]]

\* "bob", "Bob", "al"
HeadLogins == { <<98, 111, 98>>, <<66, 111, 98>>, <<97, 108>> }

\* "u001", "u002", ...
Filler(k) ==
    <<117, 48 + ((k \div 100) % 10), 48 + ((k \div 10) % 10), 48 + (k % 10)>>

\* the decimal digits of an HTTP status
StatusText(status) ==
    <<48 + ((status \div 100) % 10), 48 + ((status \div 10) % 10), 48 + (status % 10)>>

Usernames == { <<>>, <<97, 108, 105, 99, 101>> }   \* "", "alice"

Tokens == { "", "ghp_1" }

CheckTypes == { "not-following-back", "not-followed-back" }

(***************************************************************************)
(* The remote API                                                          *)
(***************************************************************************)
\* an element of a relationship list: {login, avatar_url, html_url}
UserIdentity(login) ==
    [login |-> login, avatar_url |-> <<"avatar", login>>, html_url |-> <<"html", login>>]

\* the body of GET /users/{login}
UserProfile(login) ==
    [login |-> login, avatar_url |-> <<"avatar", login>>, html_url |-> <<"html", login>>,
     followers |-> Len(login), following |-> 1, public_repos |-> 0, public_gists |-> 0]

RemoteList(head, n) ==
    [i \in 1..Len(head) |-> UserIdentity(head[i])]
        \o [i \in 1..n |-> UserIdentity(Filler(i))]

\* a relationship list names no login twice
Heads ==
    { h \in UNION { [1..k -> HeadLogins] : k \in 0..MaxHeadTotal } :
        \A i, j \in 1..Len(h) : h[i] = h[j] => i = j }

\* GET /users/{username}/following, all pages
remoteFollowing == RemoteList(followingHead, fill)

\* GET /users/{username}/followers, all pages
remoteFollowers == RemoteList(followersHead, fill)

\* page `pg` of `list`, per_page items a page, empty past the end
PageOf(list, pg) ==
    LET first == (pg - 1) * PerPage + 1
        last  == IF pg * PerPage < Len(list) THEN pg * PerPage ELSE Len(list)
    IN  IF first > Len(list) THEN <<>> ELSE SubSeq(list, first, last)

\* what fetch() can resolve to, or reject with
\* throws: fetch() rejects; parses: response.json() returns instead of throwing
Responses ==
    { [throws |-> FALSE, status |-> 200, remaining |-> "59", message |-> "", parses |-> TRUE],
      [throws |-> FALSE, status |-> 403, remaining |-> "0",
       message |-> "API rate limit exceeded", parses |-> TRUE],
      [throws |-> FALSE, status |-> 403, remaining |-> "59",
       message |-> "You have exceeded a secondary rate limit", parses |-> TRUE],
      [throws |-> FALSE, status |-> 404, remaining |-> "59", message |-> "Not Found", parses |-> TRUE],
      [throws |-> FALSE, status |-> 500, remaining |-> "59", message |-> "", parses |-> TRUE],
      [throws |-> FALSE, status |-> 200, remaining |-> "0",  message |-> "", parses |-> FALSE],
      [throws |-> FALSE, status |-> 500, remaining |-> "59", message |-> "", parses |-> FALSE],
      [throws |-> TRUE,  status |-> 0,   remaining |-> "",   message |-> "", parses |-> FALSE] }

\* response.json() of a successful response
Body(path, pg) ==
    IF path.resource = "following" THEN PageOf(remoteFollowing, pg)
    ELSE IF path.resource = "followers" THEN PageOf(remoteFollowers, pg)
    ELSE UserProfile(path.login)

(***************************************************************************)
(* fetchGitHubApi                                                          *)
(***************************************************************************)
HeadersWithoutToken(tok) == [Accept |-> "application/vnd.github+json"]

Headers(tok) ==
    IF tok # ""
    THEN [Accept |-> "application/vnd.github+json", Authorization |-> <<"Bearer ", tok>>]
    ELSE [Accept |-> "application/vnd.github+json"]

ResponseOk(resp) == resp.status \in 200..299

\* an exception on its way up the awaiting callers
Thrown == [thrown |-> TRUE]

IsThrown(value) == "thrown" \in DOMAIN value

fetchGitHubApiAny403(path, tok, pg, resp) ==
    IF resp.throws
    THEN Thrown
    ELSE IF resp.status = 403
    THEN [error |-> <<"GitHub API rate limit exceeded. Please provide a Personal Access Token.", <<>>>>,
          isRateLimitError |-> TRUE]
    ELSE IF ~ResponseOk(resp)
    THEN IF ~resp.parses
         THEN Thrown
         ELSE [error |-> IF resp.message # ""
                         THEN <<resp.message, <<>>>>
                         ELSE <<"GitHub API error: ", StatusText(resp.status)>>,
               isRateLimitError |-> FALSE]
    ELSE IF ~resp.parses
    THEN Thrown
    ELSE [data |-> Body(path, pg)]

\* the try block of fetchGitHubApi: its return value, or Thrown
fetchGitHubApiTry(path, tok, pg, resp) ==
    IF resp.throws
    THEN Thrown
    ELSE IF resp.status = 403 /\ resp.remaining = "0"
    THEN [error |-> <<"GitHub API rate limit exceeded. Please provide a Personal Access Token.", <<>>>>,
          isRateLimitError |-> TRUE]
    ELSE IF ~ResponseOk(resp)
    THEN IF ~resp.parses
         THEN Thrown
         ELSE [error |-> IF resp.message # ""
                         THEN <<resp.message, <<>>>>
                         ELSE <<"GitHub API error: ", StatusText(resp.status)>>,
               isRateLimitError |-> FALSE]
    ELSE IF ~resp.parses
    THEN Thrown
    ELSE [data |-> Body(path, pg)]

fetchGitHubApiNoCatch(path, tok, pg, resp) == fetchGitHubApiTry(path, tok, pg, resp)

\* the try block with its catch
fetchGitHubApi(path, tok, pg, resp) ==
    LET returned == fetchGitHubApiTry(path, tok, pg, resp)
    IN  IF IsThrown(returned)
        THEN [error |-> <<"Failed to connect to GitHub API.", <<>>>>, isRateLimitError |-> FALSE]
        ELSE returned

HasError(data) == "error" \in DOMAIN data

\* Ok / RateLimited / HardError
Outcome(data) ==
    IF IsThrown(data) THEN "Thrown"
    ELSE IF ~HasError(data) THEN "Ok"
    ELSE IF data.isRateLimitError THEN "RateLimited" ELSE "HardError"

\* the record of one fetch() in `requests`
Request(path, tok, pg, resp) ==
    [path |-> path, page |-> pg, per_page |-> PerPage, headers |-> Headers(tok),
     rateLimitSignal |-> (~resp.throws /\ resp.status = 403 /\ resp.remaining = "0"),
     outcome |-> Outcome(fetchGitHubApi(path, tok, pg, resp))]

(***************************************************************************)
(* getUserDetails                                                          *)
(***************************************************************************)
Null == [null |-> TRUE]

ProfilePath(login) == [resource |-> "profile", login |-> login]

ListPath(resource, login) == [resource |-> resource, login |-> login]

getUserDetailsKeepsIdentity(name, tok, resp) ==
    LET userData == fetchGitHubApi(ProfilePath(name), tok, 1, resp)
    IN  IF IsThrown(userData)
        THEN userData
        ELSE IF HasError(userData)
        THEN UserIdentity(name)
        ELSE [login        |-> userData.data.login,
              avatar_url   |-> userData.data.avatar_url,
              html_url     |-> userData.data.html_url,
              followers    |-> userData.data.followers,
              following    |-> userData.data.following,
              public_repos |-> userData.data.public_repos]

getUserDetails(name, tok, resp) ==
    LET userData == fetchGitHubApi(ProfilePath(name), tok, 1, resp)
    IN  IF IsThrown(userData)
        THEN userData
        ELSE IF HasError(userData)
        THEN Null
        ELSE [login        |-> userData.data.login,
              avatar_url   |-> userData.data.avatar_url,
              html_url     |-> userData.data.html_url,
              followers    |-> userData.data.followers,
              following    |-> userData.data.following,
              public_repos |-> userData.data.public_repos]

(***************************************************************************)
(* fetchAllPages: one iteration of its while loop                          *)
(***************************************************************************)
HasMoreWithPageCap(data) == ~(Len(data) = 0 \/ Len(data) < 100) /\ page < 2

HasMoreUntilEmpty(data) == ~(Len(data) = 0)

\* hasMore after a page of `data` was received
HasMore(data) == ~(Len(data) = 0 \/ Len(data) < 100)

fetchAllPagesIterationKeepsPages(path, tok, resp) ==
    LET data == fetchGitHubApi(path, tok, page, resp)
    IN  IF IsThrown(data)
        THEN [returned |-> TRUE, value |-> data, allData |-> allData, page |-> page]
        ELSE IF HasError(data)
        THEN [returned |-> TRUE, value |-> [data |-> allData], allData |-> allData,
              page |-> page]
        ELSE IF HasMore(data.data)
        THEN [returned |-> FALSE, value |-> data,
              allData |-> allData \o data.data, page |-> page + 1]
        ELSE [returned |-> TRUE, value |-> [data |-> allData \o data.data],
              allData |-> allData \o data.data, page |-> page + 1]

fetchAllPagesIterationRetrying(path, tok, resp) ==
    LET data == fetchGitHubApi(path, tok, page, resp)
    IN  IF IsThrown(data)
        THEN [returned |-> TRUE, value |-> data, allData |-> allData, page |-> page]
        ELSE IF HasError(data)
        THEN [returned |-> FALSE, value |-> data, allData |-> allData, page |-> page]
        ELSE IF HasMore(data.data)
        THEN [returned |-> FALSE, value |-> data,
              allData |-> allData \o data.data, page |-> page + 1]
        ELSE [returned |-> TRUE, value |-> [data |-> allData \o data.data],
              allData |-> allData \o data.data, page |-> page + 1]

\* [returned, value, allData, page] after the iteration that fetched `page`
fetchAllPagesIteration(path, tok, resp) ==
    LET data == fetchGitHubApi(path, tok, page, resp)
    IN  IF IsThrown(data) \/ HasError(data)
        THEN [returned |-> TRUE, value |-> data, allData |-> allData, page |-> page]
        ELSE IF HasMore(data.data)
        THEN [returned |-> FALSE, value |-> data,
              allData |-> allData \o data.data, page |-> page + 1]
        ELSE [returned |-> TRUE, value |-> [data |-> allData \o data.data],
              allData |-> allData \o data.data, page |-> page + 1]

(***************************************************************************)
(* getNonFollowers                                                         *)
(***************************************************************************)
Unset == [unset |-> TRUE]

NeverMissing(name) == FALSE

\* !username
UsernameMissing(name) == name = <<>>

EmptyUsernameEnvelope == [error |-> <<"Username cannot be empty.", <<>>>>]

NotFoundEnvelopeAsRateLimit(name) ==
    [error |-> <<"Could not find GitHub user: %.", name>>, isRateLimitError |-> TRUE]

NotFoundEnvelope(name) ==
    [error |-> <<"Could not find GitHub user: %.", name>>, isRateLimitError |-> FALSE]

followingSetExactCase == { followingData.data[i].login : i \in 1..Len(followingData.data) }

followingSet ==
    { toLowerCase(followingData.data[i].login) : i \in 1..Len(followingData.data) }

followersSetExactCase == { followersData.data[i].login : i \in 1..Len(followersData.data) }

followersSet ==
    { toLowerCase(followersData.data[i].login) : i \in 1..Len(followersData.data) }

Logins(users) == [i \in 1..Len(users) |-> users[i].login]

\* nonFollowersLogins as computed from followingData and followersData
Reconciled(type) ==
    IF type = "not-following-back"
    THEN Logins(SelectSeq(followingData.data,
                          LAMBDA user : toLowerCase(user.login) \notin followersSet))
    ELSE Logins(SelectSeq(followersData.data,
                          LAMBDA user : toLowerCase(user.login) \notin followingSet))

Unshift(array, item) == <<item>> \o array

\* Array.prototype.push
Push(array, item) == Append(array, item)

LoopDoneAtFirstFailure == idx > Len(nonFollowersLogins) \/ hasPartialDataError

\* the for-of loop over nonFollowersLogins has no login left
LoopDone == idx > Len(nonFollowersLogins)

SuccessEnvelopeAlwaysError(users, partial) ==
    [users |-> users, hasPartialDataError |-> partial,
     error |-> <<"Some user details could not be fetched due to GitHub API rate limit.", <<>>>>]

SuccessEnvelopeEmptyIsPartial(users, partial) ==
    IF partial \/ users = <<>>
    THEN [users |-> users, hasPartialDataError |-> TRUE,
          error |-> <<"Some user details could not be fetched due to GitHub API rate limit.", <<>>>>]
    ELSE [users |-> users, hasPartialDataError |-> partial]

SuccessEnvelope(users, partial) ==
    IF partial
    THEN [users |-> users, hasPartialDataError |-> partial,
          error |-> <<"Some user details could not be fetched due to GitHub API rate limit.", <<>>>>]
    ELSE [users |-> users, hasPartialDataError |-> partial]

(***************************************************************************)
(* The call as a state machine                                             *)
(***************************************************************************)
\* the Promise.all revisions are not running
NoPromiseAll ==
    /\ revision = "paginating"
    /\ following = <<>>
    /\ followers = <<>>
    /\ resultUsers = <<>>
    /\ completed = <<>>
    /\ criticalRateLimitHit = FALSE
    /\ partialDataRateLimitHit = FALSE
    /\ writes = {}

\* getNonFollowers is called directly, not from the page
NoPage ==
    /\ uiPc = "none"
    /\ results = <<>>
    /\ loading = FALSE
    /\ error = Null
    /\ searchedUsername = Null
    /\ showInlineTokenInput = FALSE
    /\ tempGithubToken = ""

\* the configuration tests are not running
NoTests ==
    /\ fileIndex = 1
    /\ allPassed = TRUE
    /\ exitCode = Unset
    /\ childResults = <<>>
    /\ child = [state |-> "none"]
    /\ runnerTests = <<>>
    /\ testIndex = 1
    /\ passed = 0
    /\ failed = 0
    /\ ran = <<>>

Init ==
    /\ username \in Usernames
    /\ token \in Tokens
    /\ checkType \in CheckTypes
    /\ followingHead \in Heads
    /\ followersHead \in Heads
    /\ Len(followingHead) + Len(followersHead) <= MaxHeadTotal
    /\ fill \in Fills
    \* the three-page lists come with at most one hand-picked login
    /\ fill >= 2 * PerPage => Len(followingHead) + Len(followersHead) <= 1
    /\ NoPromiseAll
    /\ NoPage
    /\ NoTests
    /\ pc = "start"
    /\ page = 1
    /\ allData = <<>>
    /\ followingData = Unset
    /\ followersData = Unset
    /\ nonFollowersLogins = <<>>
    /\ idx = 1
    /\ usersWithDetails = <<>>
    /\ hasPartialDataError = FALSE
    /\ result = Unset
    /\ requests = <<>>
    /\ lastResponse = Unset

\* entry: the username check
Validate ==
    /\ pc = "start"
    /\ IF UsernameMissing(username)
       THEN /\ result' = EmptyUsernameEnvelope
            /\ pc' = "done"
       ELSE /\ pc' = "userDetails"
            /\ UNCHANGED result
    /\ UNCHANGED <<harnessVars, promiseAllVars, pageVars>>
    /\ UNCHANGED <<username, token, checkType, followingHead, followersHead, fill,
                   page, allData, followingData, followersData, nonFollowersLogins,
                   idx, usersWithDetails, hasPartialDataError, requests, lastResponse>>

\* const userDetails = await getUserDetails(username, token)
CheckTarget ==
    /\ pc = "userDetails"
    /\ \E resp \in Responses :
         /\ requests' = Append(requests, Request(ProfilePath(username), token, 1, resp))
         /\ lastResponse' = resp
         /\ IF IsThrown(getUserDetails(username, token, resp))
            THEN /\ pc' = "rejected"
                 /\ UNCHANGED result
            ELSE IF getUserDetails(username, token, resp) = Null
            THEN /\ result' = NotFoundEnvelope(username)
                 /\ pc' = "done"
            ELSE /\ pc' = "following"
                 /\ UNCHANGED result
    /\ page' = 1
    /\ allData' = <<>>
    /\ UNCHANGED <<harnessVars, promiseAllVars, pageVars>>
    /\ UNCHANGED <<username, token, checkType, followingHead, followersHead, fill,
                   followingData, followersData, nonFollowersLogins, idx,
                   usersWithDetails, hasPartialDataError>>

\* followingData = await fetchAllPages(`/users/${username}/following`, token)
FetchFollowing ==
    /\ pc = "following"
    /\ \E resp \in Responses :
         LET path == ListPath("following", username)
             it   == fetchAllPagesIteration(path, token, resp)
         IN  /\ requests' = Append(requests, Request(path, token, page, resp))
             /\ lastResponse' = resp
             /\ IF IsThrown(it.value)
                THEN /\ pc' = "rejected"
                     /\ UNCHANGED <<followingData, page, allData>>
                ELSE IF it.returned
                THEN /\ followingData' = it.value
                     /\ pc' = "followers"
                     /\ page' = 1
                     /\ allData' = <<>>
                ELSE /\ page' = it.page
                     /\ allData' = it.allData
                     /\ UNCHANGED <<followingData, pc>>
    /\ UNCHANGED <<harnessVars, promiseAllVars, pageVars>>
    /\ UNCHANGED <<username, token, checkType, followingHead, followersHead, fill,
                   followersData, nonFollowersLogins, idx, usersWithDetails,
                   hasPartialDataError, result>>

\* followersData = await fetchAllPages(`/users/${username}/followers`, token)
FetchFollowers ==
    /\ pc = "followers"
    /\ \E resp \in Responses :
         LET path == ListPath("followers", username)
             it   == fetchAllPagesIteration(path, token, resp)
         IN  /\ requests' = Append(requests, Request(path, token, page, resp))
             /\ lastResponse' = resp
             /\ IF IsThrown(it.value)
                THEN /\ pc' = "rejected"
                     /\ UNCHANGED <<followersData, page, allData>>
                ELSE IF it.returned
                THEN /\ followersData' = it.value
                     /\ pc' = "reconcile"
                     /\ page' = 1
                     /\ allData' = <<>>
                ELSE /\ page' = it.page
                     /\ allData' = it.allData
                     /\ UNCHANGED <<followersData, pc>>
    /\ UNCHANGED <<harnessVars, promiseAllVars, pageVars>>
    /\ UNCHANGED <<username, token, checkType, followingHead, followersHead, fill,
                   followingData, nonFollowersLogins, idx, usersWithDetails,
                   hasPartialDataError, result>>

\* the error checks on both lists, then the set difference
Reconcile ==
    /\ pc = "reconcile"
    /\ IF HasError(followingData)
       THEN /\ result' = followingData
            /\ pc' = "done"
            /\ UNCHANGED nonFollowersLogins
       ELSE IF HasError(followersData)
       THEN /\ result' = followersData
            /\ pc' = "done"
            /\ UNCHANGED nonFollowersLogins
       ELSE /\ nonFollowersLogins' = Reconciled(checkType)
            /\ pc' = "details"
            /\ UNCHANGED result
    /\ idx' = 1
    /\ usersWithDetails' = <<>>
    /\ hasPartialDataError' = FALSE
    /\ UNCHANGED <<harnessVars, promiseAllVars, pageVars>>
    /\ UNCHANGED <<username, token, checkType, followingHead, followersHead, fill,
                   page, allData, followingData, followersData, requests,
                   lastResponse>>

\* one iteration of: for (const login of nonFollowersLogins)
FetchDetails ==
    /\ pc = "details"
    /\ ~LoopDone
    /\ \E resp \in Responses :
         LET login   == nonFollowersLogins[idx]
             details == getUserDetails(login, token, resp)
         IN  /\ requests' = Append(requests, Request(ProfilePath(login), token, 1, resp))
             /\ lastResponse' = resp
             /\ IF IsThrown(details)
                THEN /\ pc' = "rejected"
                     /\ UNCHANGED <<usersWithDetails, hasPartialDataError, idx>>
                ELSE /\ idx' = idx + 1
                     /\ UNCHANGED pc
                     /\ IF details # Null
                        THEN /\ usersWithDetails' = Push(usersWithDetails, details)
                             /\ UNCHANGED hasPartialDataError
                        ELSE /\ hasPartialDataError' = TRUE
                             /\ UNCHANGED usersWithDetails
    /\ UNCHANGED <<harnessVars, promiseAllVars, pageVars>>
    /\ UNCHANGED <<username, token, checkType, followingHead, followersHead, fill,
                   page, allData, followingData, followersData, nonFollowersLogins,
                   result>>

\* return { users, hasPartialDataError, error }
Return ==
    /\ pc = "details"
    /\ LoopDone
    /\ result' = SuccessEnvelope(usersWithDetails, hasPartialDataError)
    /\ pc' = "done"
    /\ UNCHANGED <<harnessVars, promiseAllVars, pageVars>>
    /\ UNCHANGED <<username, token, checkType, followingHead, followersHead, fill,
                   page, allData, followingData, followersData, nonFollowersLogins,
                   idx, usersWithDetails, hasPartialDataError, requests, lastResponse>>

Next ==
    \/ Validate
    \/ CheckTarget
    \/ FetchFollowing
    \/ FetchFollowers
    \/ Reconcile
    \/ FetchDetails
    \/ Return

Spec == Init /\ [][Next]_vars

(***************************************************************************)
(* Vocabulary of the properties                                            *)
(***************************************************************************)
Done == pc = "done"

\* the call returned the { users, hasPartialDataError, error } envelope
Succeeded == pc = "done" /\ "users" \in DOMAIN result

\* both lists were fetched and the set difference was taken
ReconciliationDone == pc = "details" \/ Succeeded

IsListRequest(r) == r.path.resource \in {"following", "followers"}

RateLimitSignal(r) == r.rateLimitSignal

PageRequests(resource) == SelectSeq(requests, LAMBDA r : r.path.resource = resource)

\* the detail fetches: every profile request after the one for the target
DetailRequests ==
    LET profiles == SelectSeq(requests, LAMBDA r : r.path.resource = "profile")
    IN  IF profiles = <<>> THEN <<>> ELSE Tail(profiles)

\* positions of the reconciled list whose detail fetch was made and failed
FailedDetails == { i \in 1..Len(DetailRequests) : DetailRequests[i].outcome # "Ok" }

HasDetailCounts(user) ==
    {"followers", "following", "public_repos"} \subseteq DOMAIN user

\* res is the logins of the members of A whose lower-cased login is no
\* lower-cased login of B, in A's order
IsDifference(res, A, B) ==
    LET keysB   == { toLowerCase(B[j].login) : j \in 1..Len(B) }
        kept    == { i \in 1..Len(A) : toLowerCase(A[i].login) \notin keysB }
        rank(i) == Cardinality({ k \in kept : k <= i })
    IN  /\ Len(res) = Cardinality(kept)
        /\ \A i \in kept : res[rank(i)] = A[i].login

\* some member of A is dropped only because the comparison folds case
DroppedByCaseFolding(A, B) ==
    \E i \in 1..Len(A) :
        /\ \A j \in 1..Len(B) : B[j].login # A[i].login
        /\ \E j \in 1..Len(B) : toLowerCase(B[j].login) = toLowerCase(A[i].login)

SuccessShape(e) ==
    /\ "users" \in DOMAIN e
    /\ ("error" \in DOMAIN e)
         <=> ("hasPartialDataError" \in DOMAIN e /\ e.hasPartialDataError = TRUE)

FailureShape(e) == "error" \in DOMAIN e /\ "users" \notin DOMAIN e

FlaggedRateLimit(e) == "isRateLimitError" \in DOMAIN e /\ e.isRateLimitError = TRUE

(***************************************************************************)
(* Properties                                                              *)
(***************************************************************************)
\* C1: with checkType 'not-following-back' the reconciled list is exactly the
\* members of the following list whose lower-cased login is not among the
\* lower-cased logins of the followers list, in the following list's order.
C1_NotFollowingBackIsDifference ==
    (ReconciliationDone /\ checkType = "not-following-back")
        => IsDifference(nonFollowersLogins, followingData.data, followersData.data)

C1_Witness ==
    /\ Succeeded
    /\ checkType = "not-following-back"
    /\ nonFollowersLogins # <<>>
    /\ Len(nonFollowersLogins) < Len(followingData.data)
    /\ DroppedByCaseFolding(followingData.data, followersData.data)

\* C2: with checkType 'not-followed-back' the reconciled list is exactly the
\* members of the followers list whose lower-cased login is absent from the
\* following list, in the followers list's order.
C2_NotFollowedBackIsDifference ==
    (ReconciliationDone /\ checkType = "not-followed-back")
        => IsDifference(nonFollowersLogins, followersData.data, followingData.data)

C2_Witness ==
    /\ Succeeded
    /\ checkType = "not-followed-back"
    /\ nonFollowersLogins # <<>>
    /\ Len(nonFollowersLogins) < Len(followersData.data)
    /\ DroppedByCaseFolding(followersData.data, followingData.data)

\* C3: when reconciliation yields N users and some detail fetches fail, the
\* envelope still has N users, each failed one present with its identity but
\* without detail counts, and hasPartialDataError is true.
C3_FailedDetailKeepsUser ==
    (Succeeded /\ FailedDetails # {})
        => /\ Len(result.users) = Len(nonFollowersLogins)
           /\ result.hasPartialDataError = TRUE
           /\ \A i \in FailedDetails :
                /\ result.users[i].login = nonFollowersLogins[i]
                /\ ~HasDetailCounts(result.users[i])

\* C4: if a request for the following or the followers list is answered with
\* the rate-limit signal, the call returns a failure envelope with
\* isRateLimitError = true and no users.
C4_ListRateLimitIsFlagged ==
    (Done /\ \E i \in 1..Len(requests) :
                IsListRequest(requests[i]) /\ RateLimitSignal(requests[i]))
        => FlaggedRateLimit(result) /\ "users" \notin DOMAIN result

\* C5: when every request of the call, starting with the first, is answered
\* with 403 and X-RateLimit-Remaining "0", the envelope has
\* isRateLimitError = true.
C5_RateLimitedCallIsFlagged ==
    (Done /\ requests # <<>> /\ \A i \in 1..Len(requests) : RateLimitSignal(requests[i]))
        => FlaggedRateLimit(result)

\* C6: an empty username gives a failure envelope (error set, no users) and
\* no network request is ever issued.
C6_EmptyUsernameNoRequest ==
    username = <<>>
        => /\ requests = <<>>
           /\ Done => FailureShape(result)

C6_Witness == Done /\ username = <<>>

\* C7: a list of n items that fetchAllPages fetched without error is returned
\* whole and in order, with exactly floor(n/100)+1 page requests, for pages
\* 1, 2, ... in that order.
C7_AllPagesFetched ==
    /\ "data" \in DOMAIN followingData
         => LET asked == PageRequests("following")
            IN  /\ followingData.data = remoteFollowing
                /\ Len(asked) = (Len(remoteFollowing) \div 100) + 1
                /\ \A k \in 1..Len(asked) : asked[k].page = k
    /\ "data" \in DOMAIN followersData
         => LET asked == PageRequests("followers")
            IN  /\ followersData.data = remoteFollowers
                /\ Len(asked) = (Len(remoteFollowers) \div 100) + 1
                /\ \A k \in 1..Len(asked) : asked[k].page = k

\* exactly 100 items on page 1, none on page 2: 100 items in 2 requests
C7_Witness ==
    /\ "data" \in DOMAIN followingData
    /\ Len(remoteFollowing) = 100
    /\ Len(followingData.data) = 100
    /\ Len(PageRequests("following")) = 2

\* C8: every returned envelope is a success (users present, error set exactly
\* when hasPartialDataError is true) or a wholesale failure (error set, users
\* absent), never both and never neither.
C8_EnvelopeShape ==
    Done => /\ SuccessShape(result) \/ FailureShape(result)
            /\ ~(SuccessShape(result) /\ FailureShape(result))

C8_Witness ==
    /\ Succeeded
    /\ result.hasPartialDataError = TRUE
    /\ "error" \in DOMAIN result

\* C9: once a request for a relationship list has ended in RateLimited or
\* HardError, no further network request is issued.
C9_NoRequestAfterListError ==
    \A i \in 1..Len(requests) :
        (IsListRequest(requests[i]) /\ requests[i].outcome # "Ok")
            => i = Len(requests)

\* the request for the target user, the first of the call, was just answered 404
TargetReportedMissing ==
    /\ Len(requests) = 1
    /\ ~lastResponse.throws
    /\ lastResponse.status = 404

C11_ListHardErrorPassedThrough ==
    Done =>
        \A i \in 1..Len(requests) :
            (IsListRequest(requests[i]) /\ requests[i].outcome = "HardError")
                => LET fetched == IF requests[i].path.resource = "following"
                                  THEN followingData ELSE followersData
                   IN  /\ FailureShape(result)
                       /\ result.error = fetched.error
                       /\ "isRateLimitError" \in DOMAIN result
                       /\ result.isRateLimitError = FALSE

\* a transport exception, or a body that response.json() cannot parse
FaultyResponse(resp) == resp.throws \/ ~resp.parses

\* C12: the call never rejects: whatever the requests are answered with
\* (success, rate-limit signal, non-success status, transport exception,
\* unparsable body), it goes on or has resolved to an envelope.
C12_NeverRejects ==
    /\ pc \in {"start", "userDetails", "following", "followers", "reconcile",
               "details", "done"}
    /\ Done => (SuccessShape(result) \/ FailureShape(result))

C12_Witness ==
    /\ Done
    /\ lastResponse # Unset
    /\ FaultyResponse(lastResponse)

\* C13: the detail fetches are made for the logins of the reconciled list,
\* one each and in its order, failed ones included; the call returns only
\* when every login had its fetch.
C13_EveryLoginAttemptedOnce ==
    /\ pc = "details"
         => /\ Len(DetailRequests) = idx - 1
            /\ idx - 1 <= Len(nonFollowersLogins)
    /\ Succeeded => Len(DetailRequests) = Len(nonFollowersLogins)
    /\ ReconciliationDone
         => \A i \in 1..Len(DetailRequests) :
                DetailRequests[i].path.login = nonFollowersLogins[i]

\* a failed detail fetch was followed by another one, and the call returned
C13_Witness ==
    /\ Succeeded
    /\ \E i \in FailedDetails : i < Len(DetailRequests)

\* the members of `list` at the positions not in `dropped`, in order
Without(list, dropped) ==
    LET kept    == (1..Len(list)) \ dropped
        rank(i) == Cardinality({ k \in kept : k <= i })
    IN  [n \in 1..Cardinality(kept) |-> list[CHOOSE i \in kept : rank(i) = n]]

\* the logins `sub` occur among the users `list`, in the order they have there
\* (a list names no login twice)
InOrderOf(sub, list) ==
    LET at(login) == CHOOSE k \in 1..Len(list) : list[k].login = login
    IN  /\ \A i \in 1..Len(sub) : \E k \in 1..Len(list) : list[k].login = sub[i]
        /\ \A i, j \in 1..Len(sub) : i < j => at(sub[i]) < at(sub[j])

\* C14: the users of a success envelope are in the order of the reconciled
\* list, which is the order of the relationship list that was filtered.
C14_OrderPreserved ==
    Succeeded
        => /\ Logins(result.users) = Without(nonFollowersLogins, FailedDetails)
           /\ InOrderOf(nonFollowersLogins,
                        IF checkType = "not-following-back"
                        THEN remoteFollowing ELSE remoteFollowers)

C14_Witness ==
    /\ Succeeded
    /\ Len(result.users) >= 2

(***************************************************************************)
(* The Promise.all revisions of getNonFollowers.  "first" is               *)
(* src/app/actions.ts lines 46-130, "second" is src/unnamed/part_003       *)
(* lines 46-131.  Both fetch one page of each list, compare the logins as  *)
(* they are, and map every reconciled user to a callback that fetches the  *)
(* profile; the callbacks are all started before any of their fetches      *)
(* settles, and the fetches settle in any order.                           *)
(***************************************************************************)
Revisions == { "first", "second" }

\* throw new Error(message)
ThrownError(message) == [thrown |-> TRUE, message |-> message]

\* fetchGitHubData: nothing is caught here
fetchGitHubData(path, resp) ==
    IF resp.throws
    THEN ThrownError(<<"fetch failed", <<>>>>)
    ELSE IF resp.status = 403 /\ resp.remaining = "0"
    THEN [data |-> Null, rateLimitExceeded |-> TRUE]
    ELSE IF ~ResponseOk(resp)
    THEN ThrownError(<<"GitHub API error: % - %", <<StatusText(resp.status), resp.message>>>>)
    ELSE IF ~resp.parses
    THEN ThrownError(<<"Unexpected token in JSON", <<>>>>)
    ELSE [data |-> Body(path, 1), rateLimitExceeded |-> FALSE]

\* the headers fetchGitHubData sends
HeadersOfData(tok) ==
    IF tok # ""
    THEN [Accept |-> "application/vnd.github+json", Authorization |-> <<"token ", tok>>]
    ELSE [Accept |-> "application/vnd.github+json"]

\* a fetch() of fetchGitHubData, as issued
RequestOfData(path, tok) ==
    [path |-> path, per_page |-> PerPage, headers |-> HeadersOfData(tok)]

\* err.message.includes("API rate limit exceeded")
MentionsRateLimit(message) ==
    /\ Len(message[2]) = 2
    /\ message[2][2] = "API rate limit exceeded"

\* the catch block of getNonFollowers
CatchEnvelope(err) ==
    IF MentionsRateLimit(err.message)
    THEN [error |-> <<"GitHub API rate limit exceeded. Please provide a token.", <<>>>>,
          isRateLimitError |-> TRUE]
    ELSE [error |-> err.message]

\* the return of a rate-limited list fetch
ListRateLimitEnvelope(resource) ==
    [error |-> <<"GitHub API rate limit exceeded for %. Please provide a token.", resource>>,
     isRateLimitError |-> TRUE]

\* resultUsers: the logins are compared as they are
ResultUsersOf(type, followingList, followersList) ==
    LET followerLogins == { followersList[i].login : i \in 1..Len(followersList) }
        followingLogins == { followingList[i].login : i \in 1..Len(followingList) }
    IN  IF type = "not-following-back"
        THEN SelectSeq(followingList, LAMBDA user : user.login \notin followerLogins)
        ELSE SelectSeq(followersList, LAMBDA user : user.login \notin followingLogins)

\* { ...user } with the counts the second revision copies from the profile
WithCounts(user, profile) ==
    [login |-> user.login, avatar_url |-> user.avatar_url, html_url |-> user.html_url,
     followers |-> profile.followers, following |-> profile.following,
     public_repos |-> profile.public_repos]

\* { ...user } with the counts the first revision copies from the profile
WithCountsAndGists(user, profile) ==
    [login |-> user.login, avatar_url |-> user.avatar_url, html_url |-> user.html_url,
     followers |-> profile.followers, following |-> profile.following,
     public_repos |-> profile.public_repos, public_gists |-> profile.public_gists]

\* the record the first revision returns for a rate-limited profile fetch
WithRateLimitError(user) ==
    [login |-> user.login, avatar_url |-> user.avatar_url, html_url |-> user.html_url,
     error |-> <<"Rate limit hit while fetching user details. Some details might be missing.", <<>>>>,
     isRateLimitError |-> TRUE]

\* the callback of the first revision after its await: the value its promise
\* settles with (a thrown error rejects it)
mapCallbackFirst(i, returned) ==
    IF IsThrown(returned) THEN returned
    ELSE IF returned.rateLimitExceeded THEN WithRateLimitError(resultUsers[i])
    ELSE WithCountsAndGists(resultUsers[i], returned.data)

mapCallbackAssignsFlag(i, returned) ==
    LET detailFailed == IsThrown(returned) \/ returned.rateLimitExceeded
    IN  [value  |-> IF detailFailed THEN resultUsers[i] ELSE WithCounts(resultUsers[i], returned.data),
         flag   |-> detailFailed,
         writes |-> { [task |-> i, variable |-> "partialDataRateLimitHit", owner |-> 0,
                       value |-> detailFailed] }
                    \cup (IF detailFailed THEN {}
                          ELSE { [task |-> i, variable |-> "userDetails", owner |-> i,
                                  value |-> TRUE] })]

\* the callback of the second revision after its await: the value its promise
\* is fulfilled with, partialDataRateLimitHit afterwards, and its assignments
mapCallbackSecond(i, returned) ==
    LET detailFailed == IsThrown(returned) \/ returned.rateLimitExceeded
    IN  [value  |-> IF detailFailed THEN resultUsers[i] ELSE WithCounts(resultUsers[i], returned.data),
         flag   |-> IF detailFailed THEN TRUE ELSE partialDataRateLimitHit,
         writes |-> IF detailFailed
                    THEN { [task |-> i, variable |-> "partialDataRateLimitHit", owner |-> 0,
                            value |-> TRUE] }
                    ELSE { [task |-> i, variable |-> "userDetails", owner |-> i,
                            value |-> TRUE] }]

PromiseAllByCompletion(i) == Len(completed) + 1

\* Promise.all: the value of the i-th promise is the i-th element of the array
PromiseAllIndex(i) == i

\* the callbacks whose fetch has not settled
Pending == (1..Len(resultUsers)) \ { completed[k] : k \in 1..Len(completed) }

\* the first revision's envelope after Promise.all
EnvelopeFirst(users) ==
    IF \E i \in 1..Len(users) : "isRateLimitError" \in DOMAIN users[i]
    THEN [users |-> users,
          error |-> <<"Some user details could not be fetched due to GitHub API rate limit. Please provide a token.", <<>>>>,
          isRateLimitError |-> TRUE]
    ELSE [users |-> users]

\* the second revision's envelope after Promise.all
EnvelopeSecond(users, partial) ==
    IF partial
    THEN [users |-> users, hasPartialDataError |-> TRUE,
          error |-> <<"Some user details could not be fetched due to GitHub API rate limit. Please provide a token for full details.", <<>>>>]
    ELSE [users |-> users]

\* the arguments of a call and the remote state, which no step changes
callVars == <<username, token, checkType, followingHead, followersHead, fill>>

InitPromiseAll ==
    /\ username \in Usernames
    /\ token \in Tokens
    /\ checkType \in CheckTypes
    /\ followingHead \in Heads
    /\ followersHead \in Heads
    /\ Len(followingHead) + Len(followersHead) <= MaxHeadTotal
    /\ fill = 0
    /\ revision \in Revisions
    /\ following = <<>>
    /\ followers = <<>>
    /\ resultUsers = <<>>
    /\ completed = <<>>
    /\ criticalRateLimitHit = FALSE
    /\ partialDataRateLimitHit = FALSE
    /\ writes = {}
    /\ NoPage
    /\ NoTests
    /\ pc = "fetchFollowing"
    /\ page = 1
    /\ allData = <<>>
    /\ followingData = Unset
    /\ followersData = Unset
    /\ nonFollowersLogins = <<>>
    /\ idx = 1
    /\ usersWithDetails = <<>>
    /\ hasPartialDataError = FALSE
    /\ result = Unset
    /\ requests = <<>>
    /\ lastResponse = Unset

\* the fetch of /users/{username}/following?per_page=100 and its check
FetchFollowingData ==
    /\ pc = "fetchFollowing"
    /\ \E resp \in Responses :
        LET path == ListPath("following", username)
            returned == fetchGitHubData(path, resp)
        IN  /\ requests' = Append(requests, RequestOfData(path, token))
            /\ IF IsThrown(returned)
               THEN /\ result' = CatchEnvelope(returned)
                    /\ pc' = "done"
                    /\ UNCHANGED <<following, criticalRateLimitHit>>
               ELSE IF returned.rateLimitExceeded
               THEN /\ criticalRateLimitHit' = (revision = "second")
                    /\ result' = ListRateLimitEnvelope("following")
                    /\ pc' = "done"
                    /\ UNCHANGED following
               ELSE /\ following' = returned.data
                    /\ pc' = "fetchFollowers"
                    /\ UNCHANGED <<result, criticalRateLimitHit>>
    /\ UNCHANGED <<revision, followers, resultUsers, completed, partialDataRateLimitHit,
                   writes, usersWithDetails, lastResponse>>
    /\ UNCHANGED <<harnessVars, callVars, pagingVars, pageVars>>

\* the fetch of /users/{username}/followers?per_page=100 and its check; then
\* resultUsers, and map() starts one callback per user, each running up to
\* its await of the profile fetch
FetchFollowersData ==
    /\ pc = "fetchFollowers"
    /\ \E resp \in Responses :
        LET path == ListPath("followers", username)
            returned == fetchGitHubData(path, resp)
        IN  IF IsThrown(returned)
            THEN /\ requests' = Append(requests, RequestOfData(path, token))
                 /\ result' = CatchEnvelope(returned)
                 /\ pc' = "done"
                 /\ UNCHANGED <<followers, resultUsers, usersWithDetails, criticalRateLimitHit>>
            ELSE IF returned.rateLimitExceeded
            THEN /\ requests' = Append(requests, RequestOfData(path, token))
                 /\ criticalRateLimitHit' = (revision = "second")
                 /\ result' = ListRateLimitEnvelope("followers")
                 /\ pc' = "done"
                 /\ UNCHANGED <<followers, resultUsers, usersWithDetails>>
            ELSE LET users == ResultUsersOf(checkType, following, returned.data)
                 IN  /\ followers' = returned.data
                     /\ resultUsers' = users
                     /\ usersWithDetails' = [i \in 1..Len(users) |-> Unset]
                     /\ requests' = Append(requests, RequestOfData(path, token)) \o
                            [i \in 1..Len(users) |->
                                RequestOfData(ProfilePath(users[i].login), token)]
                     /\ pc' = "promiseAll"
                     /\ UNCHANGED <<result, criticalRateLimitHit>>
    /\ UNCHANGED <<revision, following, completed, partialDataRateLimitHit, writes,
                   lastResponse>>
    /\ UNCHANGED <<harnessVars, callVars, pagingVars, pageVars>>

\* the profile fetch of callback i settles and the callback runs to its end
CallbackSettles(i) ==
    /\ pc = "promiseAll"
    /\ i \in Pending
    /\ \E resp \in Responses :
        LET returned == fetchGitHubData(ProfilePath(resultUsers[i].login), resp)
        IN  IF revision = "first"
            THEN LET value == mapCallbackFirst(i, returned)
                 IN  /\ IF IsThrown(value)
                        \* Promise.all rejects, the await throws into the catch block
                        THEN /\ result' = CatchEnvelope(value)
                             /\ pc' = "done"
                             /\ UNCHANGED usersWithDetails
                        ELSE /\ usersWithDetails' =
                                    [usersWithDetails EXCEPT ![PromiseAllIndex(i)] = value]
                             /\ UNCHANGED <<result, pc>>
                     /\ UNCHANGED <<partialDataRateLimitHit, writes>>
            ELSE LET effect == mapCallbackSecond(i, returned)
                 IN  /\ usersWithDetails' =
                            [usersWithDetails EXCEPT ![PromiseAllIndex(i)] = effect.value]
                     /\ partialDataRateLimitHit' = effect.flag
                     /\ writes' = writes \cup effect.writes
                     /\ UNCHANGED <<result, pc>>
    /\ completed' = Append(completed, i)
    /\ UNCHANGED <<revision, following, followers, resultUsers, criticalRateLimitHit,
                   requests, lastResponse>>
    /\ UNCHANGED <<harnessVars, callVars, pagingVars, pageVars>>

\* Promise.all is fulfilled: the envelope is built and returned
ReturnUsers ==
    /\ pc = "promiseAll"
    /\ Pending = {}
    /\ result' = IF revision = "first"
                 THEN EnvelopeFirst(usersWithDetails)
                 ELSE EnvelopeSecond(usersWithDetails, partialDataRateLimitHit)
    /\ pc' = "done"
    /\ UNCHANGED <<usersWithDetails, requests, lastResponse>>
    /\ UNCHANGED <<harnessVars, callVars, pagingVars, promiseAllVars, pageVars>>

NextPromiseAll ==
    \/ FetchFollowingData
    \/ FetchFollowersData
    \/ \E i \in 1..Len(resultUsers) : CallbackSettles(i)
    \/ ReturnUsers

SpecPromiseAll == InitPromiseAll /\ [][NextPromiseAll]_vars

(***************************************************************************)
(* Properties of the Promise.all revisions                                 *)
(***************************************************************************)
\* the assignment is to the record of the callback that made it
WritesOwnRecord(w) == w.variable = "userDetails" /\ w.owner = w.task

\* the assignment sets the flag of the enclosing call
SetsSharedFlag(w) == w.variable = "partialDataRateLimitHit" /\ w.value = TRUE

\* C15, as stated: in the Promise.all revision of part_003 the concurrent
\* callbacks share no mutable state, every callback assigns only to its own
\* output record and to no variable another callback assigns.
C15_CallbacksShareNothing ==
    revision = "second" => \A w \in writes : WritesOwnRecord(w)

\* C15, amended: in the Promise.all revision of part_003 every callback
\* assigns only to its own output record and to partialDataRateLimitHit, the
\* one variable the callbacks share; the callbacks only ever set that flag to
\* true, so it is true exactly when some callback has set it, whatever the
\* order in which they settle.
C15_CallbacksShareOnlyTheFlag ==
    revision = "second" =>
        /\ \A w \in writes : WritesOwnRecord(w) \/ SetsSharedFlag(w)
        /\ partialDataRateLimitHit <=>
               \E w \in writes : w.variable = "partialDataRateLimitHit"

\* two callbacks have set the shared flag and a third has filled its record
C15_Witness ==
    /\ revision = "second"
    /\ \E w1, w2, w3 \in writes :
        /\ w1.task # w2.task
        /\ SetsSharedFlag(w1)
        /\ SetsSharedFlag(w2)
        /\ WritesOwnRecord(w3)

\* the record is the user's: the three identity fields are the user's own
CarriesIdentityOf(record, user) ==
    /\ record.login = user.login
    /\ record.avatar_url = user.avatar_url
    /\ record.html_url = user.html_url

\* every reconciled user has a record at its own index
OneRecordPerUser(users) ==
    /\ Len(users) = Len(resultUsers)
    /\ \A i \in 1..Len(resultUsers) : CarriesIdentityOf(users[i], resultUsers[i])

\* the callbacks did not settle in the order they were started
SettledOutOfOrder ==
    \E k \in 1..(Len(completed) - 1) : completed[k] > completed[k + 1]

\* C16: in the Promise.all revision of part_003, whatever the order in which
\* the concurrent detail fetches settle, the returned users have the length
\* and the order of the reconciled list, the record at each index carrying
\* the identity of the reconciled user at that index.
C16_UsersInReconciledOrder ==
    (revision = "second" /\ Succeeded) => OneRecordPerUser(result.users)

\* users were returned after their detail fetches settled out of order
C16_Witness ==
    /\ revision = "second"
    /\ Succeeded
    /\ Len(result.users) >= 2
    /\ SettledOutOfOrder

\* the call returned after at least one detail fetch had settled
ReturnedAfterDetailFetch == Done /\ completed # <<>>

\* C17: in the first Promise.all revision (src/app/actions.ts lines 46-130)
\* a failed detail fetch, rate-limited or hard error, is not fatal: the
\* envelope still has a record for every reconciled user, the failed user
\* keeping its identity fields.
C17_FailedDetailIsNotFatal ==
    (revision = "first" /\ ReturnedAfterDetailFetch) =>
        /\ "users" \in DOMAIN result
        /\ OneRecordPerUser(result.users)

(***************************************************************************)
(* The page: handleSubmit of src/unnamed/part_001 around a call of the     *)
(* paginating getNonFollowers.  The form is submitted on a page that is    *)
(* fresh, or that shows the outcome of an earlier submission.              *)
(***************************************************************************)
\* a row an earlier submission left in results
StaleRow == UserProfile(<<122>>)

\* the page before the submission: the initial render, the page after a
\* rate-limited submission with a token typed into the inline input, and the
\* page after a successful submission
PagesBeforeSubmit ==
    { [results |-> <<>>, error |-> Null, searchedUsername |-> Null,
       showInlineTokenInput |-> FALSE, tempGithubToken |-> ""],
      [results |-> <<>>,
       error |-> <<"GitHub API rate limit exceeded. Please provide a Personal Access Token.", <<>>>>,
       searchedUsername |-> <<122>>, showInlineTokenInput |-> TRUE, tempGithubToken |-> "ghp_1"],
      [results |-> <<StaleRow>>, error |-> Null, searchedUsername |-> <<122>>,
       showInlineTokenInput |-> FALSE, tempGithubToken |-> ""] }

\* data.error is truthy: the field is there (no message is the empty string)
ErrorSet(data) == "error" \in DOMAIN data

\* data.isRateLimitError is truthy: the field is there and true
RateLimitErrorSet(data) ==
    /\ "isRateLimitError" \in DOMAIN data
    /\ data.isRateLimitError

handleSubmitKeepsPrompt(data) ==
    IF IsThrown(data)
    THEN [results |-> results,
          error |-> <<"An unexpected error occurred. Please try again.", <<>>>>,
          showInlineTokenInput |-> FALSE, tempGithubToken |-> tempGithubToken]
    ELSE IF ErrorSet(data)
    THEN IF RateLimitErrorSet(data)
         THEN [results |-> results, error |-> data.error,
               showInlineTokenInput |-> TRUE, tempGithubToken |-> tempGithubToken]
         ELSE [results |-> results, error |-> data.error,
               showInlineTokenInput |-> FALSE, tempGithubToken |-> ""]
    ELSE [results |-> IF "users" \in DOMAIN data THEN data.users ELSE <<>>,
          error |-> error, showInlineTokenInput |-> showInlineTokenInput,
          tempGithubToken |-> ""]

\* handleSubmit after its await: the state the setters leave, data being the
\* envelope, or what the call rejected with
handleSubmitAfterAwait(data) ==
    IF IsThrown(data)
    THEN [results |-> results,
          error |-> <<"An unexpected error occurred. Please try again.", <<>>>>,
          showInlineTokenInput |-> FALSE, tempGithubToken |-> tempGithubToken]
    ELSE IF ErrorSet(data)
    THEN IF RateLimitErrorSet(data)
         THEN [results |-> results, error |-> data.error,
               showInlineTokenInput |-> TRUE, tempGithubToken |-> tempGithubToken]
         ELSE [results |-> results, error |-> data.error,
               showInlineTokenInput |-> FALSE, tempGithubToken |-> ""]
    ELSE [results |-> IF "users" \in DOMAIN data THEN data.users ELSE <<>>,
          error |-> error, showInlineTokenInput |-> FALSE, tempGithubToken |-> ""]

InitPage ==
    /\ username \in Usernames
    /\ checkType \in CheckTypes
    /\ followingHead \in Heads
    /\ followersHead \in Heads
    /\ Len(followingHead) + Len(followersHead) <= MaxHeadTotal
    /\ fill = 0
    /\ \E before \in PagesBeforeSubmit :
        /\ results = before.results
        /\ error = before.error
        /\ searchedUsername = before.searchedUsername
        /\ showInlineTokenInput = before.showInlineTokenInput
        /\ tempGithubToken = before.tempGithubToken
    /\ loading = FALSE
    /\ uiPc = "form"
    /\ NoPromiseAll
    /\ NoTests
    \* getNonFollowers has not been called
    /\ token = ""
    /\ pc = "notCalled"
    /\ page = 1
    /\ allData = <<>>
    /\ followingData = Unset
    /\ followersData = Unset
    /\ nonFollowersLogins = <<>>
    /\ idx = 1
    /\ usersWithDetails = <<>>
    /\ hasPartialDataError = FALSE
    /\ result = Unset
    /\ requests = <<>>
    /\ lastResponse = Unset

\* handleSubmit up to its await: the setters, then the call
HandleSubmit ==
    /\ uiPc = "form"
    /\ error' = Null
    /\ results' = <<>>
    /\ loading' = TRUE
    /\ searchedUsername' = username
    /\ token' = tempGithubToken
    /\ pc' = "start"
    /\ uiPc' = "awaiting"
    /\ UNCHANGED <<showInlineTokenInput, tempGithubToken>>
    /\ UNCHANGED <<username, checkType, followingHead, followersHead, fill>>
    /\ UNCHANGED <<harnessVars, pagingVars, promiseAllVars, usersWithDetails, result, requests,
                   lastResponse>>

\* the call of the server action is rejected: the page's request did not
\* get through to the server, which then never runs getNonFollowers
CallRejected ==
    /\ uiPc = "awaiting"
    /\ pc = "start"
    /\ pc' = "rejected"
    /\ UNCHANGED <<harnessVars, callVars, pagingVars, promiseAllVars, pageVars, usersWithDetails,
                   result, requests, lastResponse>>

loadingWithoutFinally(data) == IsThrown(data)

\* loading after the finally block
loadingAfterAwait(data) == FALSE

\* the call settled: the rest of the try block, the catch and the finally
HandleSettled ==
    /\ uiPc = "awaiting"
    /\ pc \in {"done", "rejected"}
    /\ LET after == handleSubmitAfterAwait(IF pc = "rejected" THEN Thrown ELSE result)
       IN  /\ results' = after.results
           /\ error' = after.error
           /\ showInlineTokenInput' = after.showInlineTokenInput
           /\ tempGithubToken' = after.tempGithubToken
    /\ loading' = loadingAfterAwait(IF pc = "rejected" THEN Thrown ELSE result)
    /\ uiPc' = "settled"
    /\ UNCHANGED searchedUsername
    /\ UNCHANGED <<harnessVars, callVars, pc, pagingVars, promiseAllVars, usersWithDetails, result,
                   requests, lastResponse>>

NextPage ==
    \/ HandleSubmit
    \/ Validate
    \/ CheckTarget
    \/ FetchFollowing
    \/ FetchFollowers
    \/ Reconcile
    \/ FetchDetails
    \/ Return
    \/ CallRejected
    \/ HandleSettled

SpecPage == InitPage /\ [][NextPage]_vars

(***************************************************************************)
(* Properties of the page                                                  *)
(***************************************************************************)
\* handleSubmit ran to its end
SubmitCompleted == uiPc = "settled"

\* C18: when the envelope has users and hasPartialDataError = true,
\* handleSubmit stores those users in results, so that they are shown
\* together with the partial-data notice, not as a failure without rows.
C18_PartialUsersAreStored ==
    (SubmitCompleted /\ Succeeded /\ result.hasPartialDataError = TRUE)
        => /\ results = result.users
           /\ error = result.error

\* C19: after handleSubmit completed, showInlineTokenInput is true if and
\* only if the envelope of that request carried an error with
\* isRateLimitError = true; a success and every other failure leave it false.
C19_PromptIffRateLimitError ==
    SubmitCompleted =>
        (showInlineTokenInput <=>
            (Done /\ "error" \in DOMAIN result /\ FlaggedRateLimit(result)))

\* a submission with the token typed into the prompt was rate-limited again
C19_Witness ==
    /\ SubmitCompleted
    /\ Done
    /\ FlaggedRateLimit(result)
    /\ showInlineTokenInput
    /\ token = "ghp_1"

(***************************************************************************)
(* Reconciliation as a function of the two lists and the direction         *)
(***************************************************************************)
reconcileIgnoringDirection(followingList, followersList, type) ==
    LET followersKeys ==
            { toLowerCase(followersList[i].login) : i \in 1..Len(followersList) }
    IN  Logins(SelectSeq(followingList,
                         LAMBDA user : toLowerCase(user.login) \notin followersKeys))

\* lines 432-447 of getNonFollowers, the two lists and checkType being given
reconcile(followingList, followersList, type) ==
    LET followingKeys ==
            { toLowerCase(followingList[i].login) : i \in 1..Len(followingList) }
        followersKeys ==
            { toLowerCase(followersList[i].login) : i \in 1..Len(followersList) }
    IN  IF type = "not-following-back"
        THEN Logins(SelectSeq(followingList,
                              LAMBDA user : toLowerCase(user.login) \notin followersKeys))
        ELSE Logins(SelectSeq(followersList,
                              LAMBDA user : toLowerCase(user.login) \notin followingKeys))

\* the other direction
OppositeDirection(type) ==
    IF type = "not-following-back" THEN "not-followed-back" ELSE "not-following-back"

\* the case-folded logins of a list
Keys(list) == { toLowerCase(list[i].login) : i \in 1..Len(list) }

\* the two lists share a user without naming the same users
OverlapWithoutBeingEqual(A, B) ==
    /\ Keys(A) \cap Keys(B) # {}
    /\ Keys(A) # Keys(B)

\* C21, as stated: for lists A and B that overlap without being equal,
\* swapping the two lists together with the direction gives a result that
\* differs from the original one.
C21_SwapWithDirectionDiffers ==
    (ReconciliationDone /\ OverlapWithoutBeingEqual(followingData.data, followersData.data))
        => reconcile(followersData.data, followingData.data, OppositeDirection(checkType))
               # nonFollowersLogins

\* C21, amended: swapping the two lists together with the direction gives
\* the same result for all lists; it is swapping the direction alone (or the
\* lists alone) that gives a different result, whenever the two lists do not
\* name the same users.
C21_SwapWithDirectionIsSame ==
    ReconciliationDone =>
        LET A == followingData.data
            B == followersData.data
            original == reconcile(A, B, checkType)
        IN  /\ nonFollowersLogins = original
            /\ reconcile(B, A, OppositeDirection(checkType)) = original
            /\ Keys(A) # Keys(B) =>
                /\ reconcile(A, B, OppositeDirection(checkType)) # original
                /\ reconcile(B, A, checkType) # original

\* overlapping, unequal lists were reconciled to a non-empty result
C21_Witness ==
    /\ ReconciliationDone
    /\ OverlapWithoutBeingEqual(followingData.data, followersData.data)
    /\ nonFollowersLogins # <<>>
    /\ Len(followingData.data) # Len(followersData.data)

\* C22: if the reconciled list is empty, in particular when both lists are
\* empty, the call returns users = [] with no error and hasPartialDataError
\* false, and issues no detail fetch.
C22_EmptyReconciliation ==
    (ReconciliationDone /\ nonFollowersLogins = <<>>)
        => /\ DetailRequests = <<>>
           /\ Succeeded =>
                /\ result.users = <<>>
                /\ "error" \notin DOMAIN result
                /\ result.hasPartialDataError = FALSE

\* the call returned for a user who follows nobody and has no follower
C22_Witness ==
    /\ Succeeded
    /\ nonFollowersLogins = <<>>
    /\ followingData.data = <<>>
    /\ followersData.data = <<>>

\* the pages of a list were asked for in the order 1, 2, 3, ..., each once,
\* every page but the last asked for having been received with 100 items
AskedPageByPage(resource) ==
    LET asked == PageRequests(resource)
    IN  /\ \A k \in 1..Len(asked) : asked[k].page = k
        /\ \A k \in 1..(Len(asked) - 1) :
            /\ asked[k].outcome = "Ok"
            /\ Len(Body(asked[k].path, k)) = PerPage

\* C23: fetchAllPages asks for its pages one after another and never again:
\* in the order 1, 2, 3, ..., each page number at most once, page k+1 only
\* after page k was received with exactly 100 items; the pages of the
\* following list are all asked for before those of the followers list.
C23_PagesOneAfterAnother ==
    /\ AskedPageByPage("following")
    /\ AskedPageByPage("followers")
    /\ \A i, j \in 1..Len(requests) :
        (i < j /\ requests[i].path.resource = "followers")
            => requests[j].path.resource # "following"

\* three pages of one list were asked for, the third after two full ones,
\* and the other list failed on its first page
C23_Witness ==
    /\ Len(PageRequests("following")) = 3
    /\ Len(PageRequests("followers")) = 1
    /\ PageRequests("followers")[1].outcome # "Ok"

\* the response is the rate-limit signal: 403 with X-RateLimit-Remaining "0"
IsRateLimitSignal(resp) ==
    ~resp.throws /\ resp.status = 403 /\ resp.remaining = "0"

\* fetch() rejected, the status is no success, or the body does not parse
IsFailure(resp) ==
    resp.throws \/ resp.status \notin 200..299 \/ ~resp.parses

\* C24: fetchGitHubApi turns the outcome of every request into exactly one
\* of three results: the rate-limit error (isRateLimitError = true) exactly
\* for status 403 with X-RateLimit-Remaining "0"; otherwise a hard error
\* (isRateLimitError = false) if the status is no success or the transport
\* or the parsing of the body throws; otherwise the parsed data.
C24_ThreeOutcomes ==
    (requests # <<>> /\ lastResponse # Unset) =>
        LET last  == requests[Len(requests)]
            value == fetchGitHubApi(last.path, token, last.page, lastResponse)
        IN  IF IsRateLimitSignal(lastResponse)
            THEN /\ DOMAIN value = {"error", "isRateLimitError"}
                 /\ value.isRateLimitError = TRUE
                 /\ last.outcome = "RateLimited"
            ELSE IF IsFailure(lastResponse)
            THEN /\ DOMAIN value = {"error", "isRateLimitError"}
                 /\ value.isRateLimitError = FALSE
                 /\ last.outcome = "HardError"
            ELSE /\ value = [data |-> Body(last.path, last.page)]
                 /\ last.outcome = "Ok"

\* a 403 without the zero quota header was classified as a hard error
C24_Witness ==
    /\ requests # <<>>
    /\ lastResponse # Unset
    /\ lastResponse.status = 403
    /\ lastResponse.remaining # "0"
    /\ requests[Len(requests)].outcome = "HardError"

\* C25: every request of one call, for the target's profile, for a page of
\* a list or for a result's details, carries an Authorization header built
\* from the caller's token if and only if the token is not empty; the token
\* reaches every stage unchanged.
C25_TokenOnEveryRequest ==
    \A i \in 1..Len(requests) :
        /\ "Authorization" \in DOMAIN requests[i].headers <=> token # ""
        /\ token # "" => requests[i].headers.Authorization = <<"Bearer ", token>>

\* a call with a token made every kind of request, two pages of a list among them
C25_Witness ==
    /\ Succeeded
    /\ token # ""
    /\ Len(PageRequests("following")) >= 2
    /\ DetailRequests # <<>>

\* C26: on every success envelope of the paginating getNonFollowers,
\* hasPartialDataError is true if and only if at least one detail fetch of
\* the call failed, rate-limited or with a hard error.
C26_PartialIffDetailFailed ==
    Succeeded => (result.hasPartialDataError <=> FailedDetails # {})

\* of several detail fetches the first failed and a later one succeeded
C26_Witness ==
    /\ Succeeded
    /\ result.hasPartialDataError
    /\ Len(DetailRequests) >= 2
    /\ 1 \in FailedDetails
    /\ result.users # <<>>

\* some page request of the list did not succeed
PageFailed(resource) ==
    \E i \in 1..Len(requests) :
        requests[i].path.resource = resource /\ requests[i].outcome # "Ok"

\* what fetchAllPages returned for a list is the whole list, or an error
\* object without any item if one of its pages failed
WholeOrError(resource, listData, remote) ==
    /\ "data" \in DOMAIN listData => (listData.data = remote /\ ~PageFailed(resource))
    /\ PageFailed(resource) => DOMAIN listData = {"error", "isRateLimitError"}

\* C27: fetchAllPages never yields a part of a list: it returns all pages up
\* to and including the first with fewer than 100 items, or an error object;
\* when a page fails after earlier pages succeeded, the items read so far
\* reach neither the reconciliation nor the envelope.
C27_NoPartialList ==
    /\ WholeOrError("following", followingData, remoteFollowing)
    /\ WholeOrError("followers", followersData, remoteFollowers)
    /\ (PageFailed("following") \/ PageFailed("followers")) =>
        /\ nonFollowersLogins = <<>>
        /\ usersWithDetails = <<>>
        /\ Done => FailureShape(result)

\* the third page of a list failed after two full pages, and the call returned
C27_Witness ==
    /\ Done
    /\ Len(PageRequests("following")) = 3
    /\ PageRequests("following")[3].outcome # "Ok"
    /\ FailureShape(result)

(***************************************************************************)
(* Termination of fetchAllPages: every fetch() settles, and the            *)
(* continuation of the await then runs.                                    *)
(***************************************************************************)
\* the calls without a token for 'not-following-back': neither the token nor
\* the direction has a part in fetchAllPages
InitFetchAllPages == Init /\ token = "" /\ checkType = "not-following-back"

FairSpec ==
    /\ InitFetchAllPages
    /\ [][Next]_vars
    /\ WF_vars(FetchFollowing)
    /\ WF_vars(FetchFollowers)

\* the latest request was for a page of a list and brought 100 items
FullPageReceived ==
    /\ requests # <<>>
    /\ IsListRequest(requests[Len(requests)])
    /\ requests[Len(requests)].outcome = "Ok"
    /\ Len(Body(requests[Len(requests)].path, requests[Len(requests)].page)) = PerPage

\* after a full page the loop goes on with the next page, whatever its number
LoopGoesOnAfterFullPage ==
    FullPageReceived =>
        /\ pc = requests[Len(requests)].path.resource
        /\ page = requests[Len(requests)].page + 1

\* C28: fetchAllPages terminates for every remote list that at some page
\* answers with fewer than 100 items or with an error, and its loop has no
\* other exit: after a page of 100 items it always asks for the next one.
C28_FetchAllPagesTerminates ==
    /\ [](LoopGoesOnAfterFullPage)
    /\ (pc = "following") ~> (pc # "following")
    /\ (pc = "followers") ~> (pc # "followers")

\* fetchAllPages returned a list of three pages
C28_Witness ==
    /\ pc = "followers"
    /\ "data" \in DOMAIN followingData
    /\ Len(PageRequests("following")) = 3

\* C29: loading is true from the start of handleSubmit until the call of
\* getNonFollowers settles, and false once handleSubmit has completed, on
\* every path: success envelope, error envelope, rejected call.
C29_LoadingWhileAwaiting ==
    /\ uiPc = "awaiting" => loading
    /\ uiPc \in {"form", "settled"} => ~loading

\* handleSubmit completed through its catch block
C29_Witness ==
    /\ SubmitCompleted
    /\ pc = "rejected"
    /\ ~loading
    /\ error = <<"An unexpected error occurred. Please try again.", <<>>>>

(***************************************************************************)
(* The configuration test harness: runAllTests                             *)
(* (src/__tests__/config/package-consistency.test.js lines 272-340) spawns *)
(* the test files one after another; a test file loads its inputs,         *)
(* registers its tests with a TestRunner (lines 12-44) and exits with the  *)
(* outcome of TestRunner.run.  Whether a test throws is decided by the     *)
(* files under test, so it is any of the two.                              *)
(***************************************************************************)
MaxTests == 3

\* runAllTests: tests
TestFiles == <<"package-json.test.js", "pnpm-lock.test.js", "package-consistency.test.js">>

\* what a test file can register: each test by whether its fn throws
TestLists == UNION { [1..n -> BOOLEAN] : n \in 0..MaxTests }

\* the exit code of runner.run().then(success => process.exit(success ? 0 : 1))
ExitCodeOf(success) == IF success THEN 0 ELSE 1

\* runTest: the promise is rejected on 'error' and on 'close' with a code other than 0
runTestRejects(ended) == ended.event = "error" \/ ended.code # 0

allPassedLastOnly(before, ended) == ~runTestRejects(ended)

\* allPassed after the try/catch around await runTest(test)
allPassedAfter(before, ended) == IF runTestRejects(ended) THEN FALSE ELSE before

InitTests ==
    /\ NoTests
    /\ NoPromiseAll
    /\ NoPage
    \* getNonFollowers is not called
    /\ username = <<>>
    /\ token = ""
    /\ checkType = "not-following-back"
    /\ followingHead = <<>>
    /\ followersHead = <<>>
    /\ fill = 0
    /\ pc = "notCalled"
    /\ page = 1
    /\ allData = <<>>
    /\ followingData = Unset
    /\ followersData = Unset
    /\ nonFollowersLogins = <<>>
    /\ idx = 1
    /\ usersWithDetails = <<>>
    /\ hasPartialDataError = FALSE
    /\ result = Unset
    /\ requests = <<>>
    /\ lastResponse = Unset

\* everything but the harness
programVars == <<callVars, pc, pagingVars, usersWithDetails, result, requests,
                 lastResponse, promiseAllVars, pageVars>>

\* runTest: spawn('node', [testPath]); the file starts with a new TestRunner
Spawn ==
    /\ exitCode = Unset
    /\ fileIndex <= Len(TestFiles)
    /\ child.state = "none"
    /\ child' = [state |-> "loading"]
    /\ runnerTests' = <<>>
    /\ passed' = 0
    /\ failed' = 0
    /\ testIndex' = 1
    /\ ran' = <<>>
    /\ UNCHANGED <<fileIndex, allPassed, exitCode, childResults>>
    /\ UNCHANGED programVars

\* the process could not be spawned: child.on('error')
SpawnError ==
    /\ exitCode = Unset
    /\ fileIndex <= Len(TestFiles)
    /\ child.state = "none"
    /\ child' = [state |-> "ended", event |-> "error", via |-> "spawn"]
    /\ UNCHANGED <<fileIndex, allPassed, exitCode, childResults, runnerTests, passed,
                   failed, testIndex, ran>>
    /\ UNCHANGED programVars

\* the test file cannot load the files under test: process.exit(1)
LoadFails ==
    /\ child.state = "loading"
    /\ child' = [state |-> "ended", event |-> "close", code |-> 1, via |-> "load"]
    /\ UNCHANGED <<fileIndex, allPassed, exitCode, childResults, runnerTests, passed,
                   failed, testIndex, ran>>
    /\ UNCHANGED programVars

\* the runner.test(...) calls of the file, then runner.run() begins
Register ==
    /\ child.state = "loading"
    /\ \E tests \in TestLists : runnerTests' = tests
    /\ child' = [state |-> "running"]
    /\ UNCHANGED <<fileIndex, allPassed, exitCode, childResults, passed, failed,
                   testIndex, ran>>
    /\ UNCHANGED programVars

\* one iteration of the for-of loop of TestRunner.run
RunOneTest ==
    /\ child.state = "running"
    /\ testIndex <= Len(runnerTests)
    /\ ran' = Append(ran, testIndex)
    /\ IF runnerTests[testIndex]
       THEN failed' = failed + 1 /\ UNCHANGED passed
       ELSE passed' = passed + 1 /\ UNCHANGED failed
    /\ testIndex' = testIndex + 1
    /\ UNCHANGED <<fileIndex, allPassed, exitCode, childResults, child, runnerTests>>
    /\ UNCHANGED programVars

\* TestRunner.run returns this.failed === 0 and the file exits with it
RunReturns ==
    /\ child.state = "running"
    /\ testIndex > Len(runnerTests)
    /\ child' = [state |-> "ended", event |-> "close", code |-> ExitCodeOf(failed = 0),
                 via |-> "run"]
    /\ UNCHANGED <<fileIndex, allPassed, exitCode, childResults, runnerTests, passed,
                   failed, testIndex, ran>>
    /\ UNCHANGED programVars

\* the promise of runTest settles and the loop of runAllTests goes on
ChildSettles ==
    /\ child.state = "ended"
    /\ allPassed' = allPassedAfter(allPassed, child)
    /\ childResults' = Append(childResults,
                              [file |-> TestFiles[fileIndex], ended |-> child])
    /\ fileIndex' = fileIndex + 1
    /\ child' = [state |-> "none"]
    /\ UNCHANGED <<exitCode, runnerTests, passed, failed, testIndex, ran>>
    /\ UNCHANGED programVars

\* process.exit(0) or process.exit(1) after the loop
Exit ==
    /\ exitCode = Unset
    /\ fileIndex > Len(TestFiles)
    /\ exitCode' = [code |-> ExitCodeOf(allPassed)]
    /\ UNCHANGED <<fileIndex, allPassed, childResults, child, runnerTests, passed,
                   failed, testIndex, ran>>
    /\ UNCHANGED programVars

NextTests ==
    \/ Spawn
    \/ SpawnError
    \/ LoadFails
    \/ Register
    \/ RunOneTest
    \/ RunReturns
    \/ ChildSettles
    \/ Exit

SpecTests == InitTests /\ [][NextTests]_vars

(***************************************************************************)
(* Properties of the test harness                                          *)
(***************************************************************************)
\* the test file exited with code 0
ExitedWithZero(ended) == ended.event = "close" /\ ended.code = 0

\* the number of registered tests whose fn throws
Throwing == Cardinality({ k \in 1..Len(runnerTests) : runnerTests[k] })

\* TestRunner.run called every registered test once, in order, counted each
\* as passed or failed, and returned true exactly for failed = 0
RunnerIsFaithful ==
    (child.state = "ended" /\ child.via = "run") =>
        /\ ran = [k \in 1..Len(runnerTests) |-> k]
        /\ passed + failed = Len(runnerTests)
        /\ failed = Throwing
        /\ child.code = 0 <=> failed = 0

\* runAllTests ran the files one by one in the listed order, all of them,
\* and exited with 0 exactly if every file exited with 0
SuiteIsFaithful ==
    /\ Len(childResults) <= Len(TestFiles)
    /\ \A k \in 1..Len(childResults) : childResults[k].file = TestFiles[k]
    /\ exitCode # Unset =>
        /\ Len(childResults) = Len(TestFiles)
        /\ exitCode.code = 0 <=>
               \A k \in 1..Len(childResults) : ExitedWithZero(childResults[k].ended)

\* C30: TestRunner.run executes every registered test even after earlier
\* ones threw, ends with passed + failed equal to the number of registered
\* tests and returns true exactly when failed = 0; runAllTests runs the three
\* test files one at a time in the listed order, goes on after a failing
\* file, and exits with code 0 if and only if every file exited with code 0.
C30_HarnessReportsFaithfully ==
    /\ RunnerIsFaithful
    /\ SuiteIsFaithful

\* the first file failed one of its tests, the later files ran all the same
\* and the last one passed with tests of its own; the suite exited with 1
C30_Witness ==
    /\ exitCode # Unset
    /\ exitCode.code = 1
    /\ childResults[1].ended.via = "run"
    /\ childResults[1].ended.code = 1
    /\ ExitedWithZero(childResults[3].ended)
    /\ passed = MaxTests

====
